---------------------------- MODULE Spec2Model ----------------------------
(***************************************************************************)
(* Model of the route tracker: RouteTracker (src/src/tracker.rs), the      *)
(* route persistence (src/src/route.rs) and the mount-state pointer        *)
(* (src/src/custom_pointers.rs).                                           *)
(*                                                                         *)
(* The monotonic clock (std::time::Instant) is counted in clock units;     *)
(* UnitsPerMs of them make one millisecond, so that Duration::as_millis    *)
(* truncates as it does in the program.                                    *)
(***************************************************************************)
EXTENDS Integers, Sequences, FiniteSets, TLC

(***************************************************************************)
(* Bounds of the model.                                                    *)
(***************************************************************************)
\* clock units per millisecond (the program's clock has 1,000,000)
UnitsPerMs == 2
\* the monotonic clock stops at MaxTime units
MaxTime == 5
\* the trajectory holds at most MaxPoints points
MaxPoints == 2
\* the routes directory holds at most MaxFiles files
MaxFiles == 2

(***************************************************************************)
(* Option<T>: None is the empty sequence, Some(v) the sequence <<v>>.      *)
(***************************************************************************)
None == << >>

Some(v) == << v >>

IsSome(o) == o # None

Unwrap(o) == o[1]

(***************************************************************************)
(* f32 values as read from the game's memory: a finite number, or a        *)
(* non-finite one (NaN, +-infinity), which any read of raw memory can      *)
(* return.                                                                 *)
(***************************************************************************)
Fin(n) == [fin |-> TRUE, v |-> n]

NonFinite == [fin |-> FALSE, v |-> 0]

FAdd(a, d) == IF a.fin THEN Fin(a.v + d) ELSE NonFinite

(***************************************************************************)
(* Values the memory reads can return.                                     *)
(***************************************************************************)
\* RoutePoint::map_id: a tile id packed as 0xWWXXYYDD
PackTile(ww, xx, yy, dd) == ww * 16777216 + xx * 65536 + yy * 256 + dd

\* m11_10_00_00, a tile the anchored table has rows for
TileAnchored == PackTile(11, 10, 0, 0)

\* m12_01_00_00, a tile no table has a row for
TileUnanchored == PackTile(12, 1, 0, 0)

Read(pos, map_id, horse_state) ==
    [ pos |-> pos, map_id |-> map_id, horse_state |-> horse_state ]

\* What one call of record_position can find in the game's memory: the position
\* (global_position.read()), the tile (read_map_id()) and the mount state
\* (horse_state.read(): 0 = none, 1, 3, 5 = riding states), each available or not.
\* The mount state is read only when position and tile are both available.
MemoryReads ==
    { Read(None, Some(TileAnchored), None),
      Read(Some(<<Fin(1), Fin(2), Fin(3)>>), None, None),
      Read(None, None, None),
      Read(Some(<<Fin(1), Fin(2), Fin(3)>>), Some(TileAnchored), None),
      Read(Some(<<Fin(1), Fin(2), Fin(3)>>), Some(TileUnanchored), Some(5)),
      Read(Some(<<NonFinite, Fin(2), Fin(3)>>), Some(TileAnchored), Some(0)) }

\* Configured record_interval_ms values
IntervalSamples == { 0, 1 }

\* By how many clock units the clock moves between two reads within one call
DriftSteps == { 0, 1 }


(***************************************************************************)
(* WorldPositionTransformer (crate::coordinate_transformer).               *)
(* A table is a sequence of rows [tile, anchor, dx, dz] in file order.     *)
(***************************************************************************)
EmptyTransformer == << >>

\* TileAnchored has two rows (the first wins); TileUnanchored has none.
AnchoredTransformer ==
    << [tile |-> TileAnchored, anchor |-> PackTile(60, 0, 0, 0), dx |-> 10, dz |-> 20],
       [tile |-> TileAnchored, anchor |-> PackTile(60, 0, 0, 0), dx |-> 100, dz |-> 200] >>

TransformerSamples == { EmptyTransformer, AnchoredTransformer }

RowsOf(table, tile) == SelectSeq(table, LAMBDA r : r.tile = tile)

RECURSIVE ResolveChain(_, _, _, _, _, _)
ResolveChain(table, tile, x, y, z, fuel) ==
    LET rows == RowsOf(table, tile) IN
    IF rows = << >> \/ fuel = 0
    THEN None
    ELSE LET row == Head(rows)
             gx == FAdd(x, row.dx)
             gz == FAdd(z, row.dz)
         IN  IF RowsOf(table, row.anchor) = << >>
             THEN Some(<<gx, y, gz>>)
             ELSE ResolveChain(table, row.anchor, gx, y, gz, fuel - 1)

\* local_to_world_first(map_id, x, y, z) -> Option<(gx, gy, gz)>
local_to_world_first(table, map_id, x, y, z) ==
    ResolveChain(table, map_id, x, y, z, Len(table))

\* format_map_id: the four 8-bit fields of the packed id
format_map_id(map_id) ==
    << (map_id \div 16777216) % 256, (map_id \div 65536) % 256,
       (map_id \div 256) % 256, map_id % 256 >>

(***************************************************************************)
(* CustomPointers::is_on_torrent: horse_state.read().map(|v| v != 0)       *)
(*                                           .unwrap_or(false)             *)
(***************************************************************************)
is_on_torrent_default_true(horse_state) ==
    IF IsSome(horse_state) THEN Unwrap(horse_state) # 0 ELSE TRUE

is_on_torrent(horse_state) ==
    IF IsSome(horse_state) THEN Unwrap(horse_state) # 0 ELSE FALSE

(***************************************************************************)
(* Durations on the monotonic clock.                                       *)
(***************************************************************************)
\* Duration::from_millis
from_millis(ms) == ms * UnitsPerMs

\* Duration::as_millis: whole milliseconds
as_millis(d) == d \div UnitsPerMs

\* The filesystem calls of one save_route that the environment can make fail.
SaveFailures == { "none", "create_dir", "serialize", "create", "write" }

\* SystemTime::now() in whole seconds since the epoch, as save_route reads it
WallClockReads == { 86399 }

\* Texts passed to set_status
\* Readings of the system clock, in whole seconds since the epoch: around the
\* turns of a minute, an hour, a day, a 30-day month and a 365-day year, and
\* one of the 2020s.
SecondSamples ==
    { 0, 1, 60, 3600, 86400, 30 * 86400, 364 * 86400, 365 * 86400, 1800000000 }

\* How long the directory and file I/O of one save can take: no time to speak
\* of, or longer than a sampling interval of 1 ms.
SaveDurations == { 0, from_millis(1) + 1 }

StatusTexts == { "Route saved" }

\* Texts that differ from one set_status to the next
StatusTextSamples == { "Route saved", "Recording started" }

(***************************************************************************)
(* RoutePoint and the sampling of one point (tracker.rs, record_position). *)
(***************************************************************************)
\* self.start_time.map(|t| t.elapsed().as_millis() as u64).unwrap_or(0)
elapsed_ms(start, t) == IF IsSome(start) THEN as_millis(t - Unwrap(start)) ELSE 0

to_global_zero_on_failure(table, map_id, x, y, z) ==
    LET r == local_to_world_first(table, map_id, x, y, z)
    IN  IF IsSome(r) THEN Unwrap(r) ELSE <<Fin(0), Fin(0), Fin(0)>>

\* local_to_world_first(map_id, x, y, z).unwrap_or((x, y, z))
to_global(table, map_id, x, y, z) ==
    LET r == local_to_world_first(table, map_id, x, y, z)
    IN  IF IsSome(r) THEN Unwrap(r) ELSE <<x, y, z>>

RoutePoint(x, y, z, g, map_id, timestamp_ms, on_torrent) ==
    [ x |-> x, y |-> y, z |-> z,
      global_x |-> g[1], global_y |-> g[2], global_z |-> g[3],
      map_id |-> map_id, map_id_str |-> format_map_id(map_id),
      timestamp_ms |-> timestamp_ms, on_torrent |-> on_torrent ]

sample_point_placeholder(table, pos, map_id, horse_state, timestamp_ms) ==
    LET p == IF IsSome(pos) THEN Unwrap(pos) ELSE <<Fin(0), Fin(0), Fin(0)>>
        m == IF IsSome(map_id) THEN Unwrap(map_id) ELSE 0
    IN  Some(RoutePoint(p[1], p[2], p[3], to_global(table, m, p[1], p[2], p[3]),
                        m, timestamp_ms, is_on_torrent(horse_state)))

\* The body of `if let (Some([x, y, z, _, _]), Some(map_id)) = ...`: the point
\* pushed, or None when the position or the map id could not be read.
sample_point(table, pos, map_id, horse_state, timestamp_ms) ==
    IF IsSome(pos) /\ IsSome(map_id)
    THEN LET p == Unwrap(pos)
             m == Unwrap(map_id)
         IN  Some(RoutePoint(p[1], p[2], p[3], to_global(table, m, p[1], p[2], p[3]),
                             m, timestamp_ms, is_on_torrent(horse_state)))
    ELSE None

should_sample_ignores_state(recording, last, t, interval) == ~(t - last < interval)

should_sample_ignores_interval(recording, last, t, interval) == recording

\* record_position's two early returns: `if !self.is_recording { return; }` and
\* `if self.last_record_time.elapsed() < self.record_interval { return; }`
should_sample(recording, last, t, interval) ==
    recording /\ ~(t - last < interval)

(***************************************************************************)
(* Custom pointer chains (custom_pointers.rs) and the wait for the game    *)
(* (tracker.rs).                                                           *)
(***************************************************************************)
\* The versions whose arm of the match is the first one.
OlderLayoutVersions ==
    { "V1_02_0", "V1_02_1", "V1_02_2", "V1_02_3", "V1_03_0", "V1_03_1",
      "V1_03_2", "V1_04_0", "V1_04_1", "V1_05_0", "V1_06_0" }

\* Versions that fall to the `_` arm: 1.07.0, later 1.x ones and 2.x ones.
LaterVersionSamples == { "V1_07_0", "V1_08_0", "V1_10_0", "V2_00_0", "V2_02_0" }

\* What get_version() can return.
Versions == OlderLayoutVersions \cup LaterVersionSamples

\* 0x18468
OlderLayoutOffset == 99432

\* 0x1E508
LatestLayoutOffset == 124168

player_ins_without_1_06(version) ==
    IF version \in OlderLayoutVersions \ { "V1_06_0" }
    THEN OlderLayoutOffset
    ELSE LatestLayoutOffset

\* let player_ins: usize = match version { .. }
player_ins(version) ==
    IF version \in OlderLayoutVersions
    THEN OlderLayoutOffset
    ELSE LatestLayoutOffset

\* pointers.base_addresses: where the running game keeps WorldChrMan and
\* GameDataMan
BaseAddressSamples ==
    { [ world_chr_man |-> 1000, game_data_man |-> 2000 ],
      [ world_chr_man |-> 1008, game_data_man |-> 2016 ] }

\* CustomPointers::new: the eight chains, offsets in decimal
CustomPointers_new(base_addresses, version) ==
    LET world_chr_man == base_addresses.world_chr_man
        offset == player_ins(version)
    IN  [ ride_param_id |-> << world_chr_man, offset, 400, 232, 32 >>,
          is_riding_enabled |-> << world_chr_man, offset, 400, 232, 49 >>,
          riding |-> << world_chr_man, offset, 400, 232, 50 >>,
          is_it_a_horse |-> << world_chr_man, offset, 400, 232, 51 >>,
          horse_state |-> << world_chr_man, offset, 400, 232, 16, 80 >>,
          horse_hp |-> << world_chr_man, offset, 400, 232, 300 >>,
          is_inside_no_ride_area |-> << world_chr_man, offset, 400, 232, 356 >>,
          death_count |-> << base_addresses.game_data_man, 148 >> ]

\* What one read of pointers.menu_timer can return: nothing, or an f32 that is
\* zero, positive or negative.
MenuTimerReads == { None, Some(Fin(0)), Some(Fin(1)), Some(Fin(-1)), Some(Fin(-2)) }

game_loaded_on_zero(read) == IsSome(read) /\ Unwrap(read).fin /\ Unwrap(read).v >= 0

\* if let Some(menu_timer) = pointers.menu_timer.read() { if menu_timer > 0. { break; } }
game_loaded(read) == IsSome(read) /\ Unwrap(read).fin /\ Unwrap(read).v > 0

\* Config::load(hmodule): Err(e), or Ok(cfg) with cfg.recording.record_interval_ms
ConfigErr == [ ok |-> FALSE, record_interval_ms |-> 0 ]

ConfigOk(ms) == [ ok |-> TRUE, record_interval_ms |-> ms ]

\* let poll_interval = Duration::from_millis(100)
poll_interval == from_millis(100)

\* What the model holds for a field of the engine while no engine is built, and
\* for a local of RouteTracker::new before its `let`: a sequence no Vec, Option
\* or table equals, and a number no Instant or Duration equals. The flag
\* is_recording has no third value and is held at false.
Absent == << "absent" >>

AbsentNumber == 0 - 1

(***************************************************************************)
(* The state.                                                              *)
(***************************************************************************)
VARIABLES
    \* RouteTracker's fields
    route, is_recording, start_time, last_record_time, record_interval,
    record_interval_ms, status_message, transformer,
    \* the environment: the monotonic clock and the routes directory
    now, dir_exists, files,
    \* RouteTracker::new: where it stands, what Config::load returned, the
    \* chains it built, the last read of the menu timer and the reads made so
    \* far, and the version of the game it runs in
    pc, config, pointers, custom_pointers, menu_timer, polls, version,
    \* the last call: its name, the trajectory length and the recording flag it
    \* found, what it read, what it returned
    op, pre, inp, ret

tracker == << route, is_recording, start_time, last_record_time, record_interval,
              record_interval_ms, status_message, transformer >>

filesystem == << dir_exists, files >>

construction == << pc, config, pointers, custom_pointers, menu_timer, polls, version >>

vars == << tracker, now, filesystem, construction, op, pre, inp, ret >>

Pre == [ len |-> Len(route), recording |-> is_recording ]

NoInp == [ sampled |-> FALSE, mem |-> Read(None, None, None), secs |-> None ]

NoRet == [ ok |-> TRUE, path |-> None, err |-> "", status |-> None ]

\* RouteTracker::new has returned Some(Self { .. }) at its first read of the
\* menu timer, in a game of version 1.07.0.
Constructed ==
    /\ pc = "done"
    /\ config = Some(ConfigOk(record_interval_ms))
    /\ version = "V1_07_0"
    /\ pointers = Some([ world_chr_man |-> 1000, game_data_man |-> 2000 ])
    /\ custom_pointers = Some(CustomPointers_new(Unwrap(pointers), version))
    /\ menu_timer = Some(Fin(1))
    /\ polls = 1

\* RouteTracker::new has returned Some(Self { .. }): the Self it builds.
Init ==
    /\ route = << >>
    /\ is_recording = FALSE
    /\ start_time = None
    /\ last_record_time = 0
    /\ record_interval_ms \in IntervalSamples
    /\ record_interval = from_millis(record_interval_ms)
    /\ status_message = None
    /\ transformer \in TransformerSamples
    /\ now = 0
    /\ dir_exists \in BOOLEAN
    /\ files = << >>
    /\ Constructed
    /\ op = "new"
    /\ pre = [ len |-> 0, recording |-> FALSE ]
    /\ inp = NoInp
    /\ ret = NoRet

\* Time passes between two calls of the host.
advance ==
    /\ now < MaxTime
    /\ now' = now + 1
    /\ op' = "advance"
    /\ pre' = Pre
    /\ UNCHANGED construction
    /\ inp' = NoInp
    /\ ret' = NoRet
    /\ UNCHANGED << tracker, filesystem >>

start_recording_keeps_points_on_restart ==
    /\ route' = IF is_recording THEN route ELSE << >>
    /\ start_time' = Some(now)
    /\ is_recording' = TRUE
    /\ op' = "start_recording"
    /\ pre' = Pre
    /\ UNCHANGED construction
    /\ inp' = NoInp
    /\ ret' = NoRet
    /\ UNCHANGED << last_record_time, record_interval, record_interval_ms,
                    status_message, transformer, now, filesystem >>

start_recording_keeps_points ==
    /\ route' = route
    /\ start_time' = Some(now)
    /\ is_recording' = TRUE
    /\ op' = "start_recording"
    /\ pre' = Pre
    /\ UNCHANGED construction
    /\ inp' = NoInp
    /\ ret' = NoRet
    /\ UNCHANGED << last_record_time, record_interval, record_interval_ms,
                    status_message, transformer, now, filesystem >>

start_recording_keeps_first_start ==
    /\ route' = << >>
    /\ start_time' = IF IsSome(start_time) THEN start_time ELSE Some(now)
    /\ is_recording' = TRUE
    /\ op' = "start_recording"
    /\ pre' = Pre
    /\ UNCHANGED construction
    /\ inp' = NoInp
    /\ ret' = NoRet
    /\ UNCHANGED << last_record_time, record_interval, record_interval_ms,
                    status_message, transformer, now, filesystem >>

start_recording_resets_last_sample ==
    /\ route' = << >>
    /\ start_time' = Some(now)
    /\ last_record_time' = now
    /\ is_recording' = TRUE
    /\ op' = "start_recording"
    /\ pre' = Pre
    /\ UNCHANGED construction
    /\ inp' = NoInp
    /\ ret' = NoRet
    /\ UNCHANGED << record_interval, record_interval_ms, status_message,
                    transformer, now, filesystem >>

start_recording ==
    /\ route' = << >>
    /\ start_time' = Some(now)
    /\ is_recording' = TRUE
    /\ op' = "start_recording"
    /\ pre' = Pre
    /\ UNCHANGED construction
    /\ inp' = NoInp
    /\ ret' = NoRet
    /\ UNCHANGED << last_record_time, record_interval, record_interval_ms,
                    status_message, transformer, now, filesystem >>

stop_recording_clears ==
    /\ is_recording' = FALSE
    /\ route' = << >>
    /\ op' = "stop_recording"
    /\ pre' = Pre
    /\ UNCHANGED construction
    /\ inp' = NoInp
    /\ ret' = NoRet
    /\ UNCHANGED << start_time, last_record_time, record_interval,
                    record_interval_ms, status_message, transformer, now,
                    filesystem >>

stop_recording ==
    /\ is_recording' = FALSE
    /\ op' = "stop_recording"
    /\ pre' = Pre
    /\ UNCHANGED construction
    /\ inp' = NoInp
    /\ ret' = NoRet
    /\ UNCHANGED << route, start_time, last_record_time, record_interval,
                    record_interval_ms, status_message, transformer, now,
                    filesystem >>

\* One call of record_position. The clock is read up to three times: by
\* last_record_time.elapsed() (at now), by start_time.elapsed() (d1 later) and
\* by Instant::now() (d2 later still).
record_position ==
    /\ Len(route) < MaxPoints
    /\ op' = "record_position"
    /\ pre' = Pre
    /\ UNCHANGED construction
    /\ ret' = NoRet
    /\ UNCHANGED << is_recording, start_time, record_interval, record_interval_ms,
                    status_message, transformer, filesystem >>
    /\ IF ~should_sample(is_recording, last_record_time, now, record_interval)
       THEN /\ inp' = NoInp
            /\ UNCHANGED << route, last_record_time, now >>
       ELSE \E mem \in MemoryReads, d1 \in DriftSteps, d2 \in DriftSteps :
              LET pt == sample_point(transformer, mem.pos, mem.map_id,
                                     mem.horse_state,
                                     elapsed_ms(start_time, now + d1))
              IN  /\ inp' = [ NoInp EXCEPT !.sampled = TRUE, !.mem = mem ]
                  /\ IF IsSome(pt)
                     THEN /\ now + d1 + d2 <= MaxTime
                          /\ route' = Append(route, Unwrap(pt))
                          /\ last_record_time' = now + d1 + d2
                          /\ now' = now + d1 + d2
                     ELSE \* nothing more is read, the clock included
                          /\ d1 = 0 /\ d2 = 0
                          /\ UNCHANGED << route, last_record_time, now >>

(***************************************************************************)
(* Route persistence (route.rs).                                           *)
(***************************************************************************)
\* A String is the sequence of its characters.
Digit(n) == << "0", "1", "2", "3", "4", "5", "6", "7", "8", "9" >>[n + 1]

RECURSIVE Decimal(_)
Decimal(n) ==
    IF n < 10 THEN << Digit(n) >> ELSE Append(Decimal(n \div 10), Digit(n % 10))

\* {:0width}: the decimal digits, with zeros in front up to width characters
ZeroPadded(n, width) ==
    LET digits == Decimal(n)
    IN  [ i \in 1 .. (IF Len(digits) < width THEN width - Len(digits) ELSE 0) |-> "0" ]
          \o digits

\* str.replace(from, to), for one-character patterns
replace(str, from, to) ==
    [ i \in 1 .. Len(str) |-> IF str[i] = from THEN to ELSE str[i] ]

generate_timestamp_without_seconds(secs) ==
    LET days == secs \div 86400
        years == 1970 + (days \div 365)
        remaining_days == days % 365
        months == (remaining_days \div 30) + 1
        day == (remaining_days % 30) + 1
        hours == (secs % 86400) \div 3600
        minutes == (secs % 3600) \div 60
    IN  ZeroPadded(years, 4) \o << "-" >> \o ZeroPadded(months, 2) \o << "-" >>
          \o ZeroPadded(day, 2) \o << " " >> \o ZeroPadded(hours, 2) \o << ":" >>
          \o ZeroPadded(minutes, 2)

\* generate_timestamp, for SystemTime::now() secs whole seconds after the epoch
generate_timestamp(secs) ==
    LET days == secs \div 86400
        years == 1970 + (days \div 365)
        remaining_days == days % 365
        months == (remaining_days \div 30) + 1
        day == (remaining_days % 30) + 1
        hours == (secs % 86400) \div 3600
        minutes == (secs % 3600) \div 60
        seconds == secs % 60
    IN  ZeroPadded(years, 4) \o << "-" >> \o ZeroPadded(months, 2) \o << "-" >>
          \o ZeroPadded(day, 2) \o << " " >> \o ZeroPadded(hours, 2) \o << ":" >>
          \o ZeroPadded(minutes, 2) \o << ":" >> \o ZeroPadded(seconds, 2)

\* routes_dir.join(format!("route_{}.json", now.replace(":", "-").replace(" ", "_")))
filename_of(timestamp) ==
    << "r", "o", "u", "t", "e", "_" >>
      \o replace(replace(timestamp, ":", "-"), " ", "_")
      \o << ".", "j", "s", "o", "n" >>

\* What generate_timestamp returns and the file name made of it, at each reading
\* of the system clock the model draws.
TimestampAt == [ secs \in WallClockReads \cup SecondSamples |-> generate_timestamp(secs) ]

FilenameAt == [ secs \in DOMAIN TimestampAt |-> filename_of(TimestampAt[secs]) ]

\* route.last().map(|p| p.timestamp_ms as f64 / 1000.0).unwrap_or(0.0),
\* kept as the exact quotient num / den
duration_secs_of(r) ==
    IF r = << >> THEN [num |-> 0, den |-> 1]
    ELSE [num |-> r[Len(r)].timestamp_ms, den |-> 1000]

\* SavedRoute { name, recorded_at, duration_secs, interval_ms, point_count, points }
SavedRoute(r, interval_ms, timestamp) ==
    [ name |-> << "R", "o", "u", "t", "e", " " >> \o timestamp,
      recorded_at |-> timestamp,
      duration_secs |-> duration_secs_of(r),
      interval_ms |-> interval_ms,
      point_count |-> Len(r),
      points |-> r ]

\* serde_json writes a finite float as the shortest decimal that reads back as the
\* same float, and a non-finite one (NaN, infinity) as null.
json_f32(f) == IF f.fin THEN [null |-> FALSE, num |-> f.v] ELSE [null |-> TRUE, num |-> 0]

json_point(p) ==
    [ x |-> json_f32(p.x), y |-> json_f32(p.y), z |-> json_f32(p.z),
      global_x |-> json_f32(p.global_x), global_y |-> json_f32(p.global_y),
      global_z |-> json_f32(p.global_z),
      map_id |-> p.map_id, map_id_str |-> p.map_id_str,
      timestamp_ms |-> p.timestamp_ms, on_torrent |-> p.on_torrent ]

\* serde_json::to_string_pretty(&saved_route)
to_json(saved) ==
    [ name |-> saved.name,
      recorded_at |-> saved.recorded_at,
      duration_secs |-> saved.duration_secs,
      interval_ms |-> saved.interval_ms,
      point_count |-> saved.point_count,
      points |-> [ i \in 1 .. Len(saved.points) |-> json_point(saved.points[i]) ] ]

SaveOk(path, dir, fs) ==
    [ ret |-> [ ok |-> TRUE, path |-> Some(path), err |-> "", status |-> None ],
      dir_exists |-> dir, files |-> fs ]

SaveErr(err, dir, fs) ==
    [ ret |-> [ ok |-> FALSE, path |-> None, err |-> err, status |-> None ],
      dir_exists |-> dir, files |-> fs ]

\* A file's content: None while it is created and not written (or written in
\* part), Some(document) once write_all has returned.
WriteFile(fs, path, content) ==
    [ f \in (DOMAIN fs) \cup { path } |-> IF f = path THEN content ELSE fs[f] ]

save_route_steps_creates_file_first(r, dir, fs, interval_ms, secs, fail) ==
    IF ~dir /\ fail = "create_dir"
    THEN SaveErr("Failed to create routes directory", dir, fs)
    ELSE LET timestamp == TimestampAt[secs]
             filepath == FilenameAt[secs]
             saved == SavedRoute(r, interval_ms, timestamp)
         IN  IF fail = "create"
             THEN SaveErr("Failed to create file", TRUE, fs)
             ELSE IF fail = "serialize"
             THEN SaveErr("Failed to serialize route", TRUE, WriteFile(fs, filepath, None))
             ELSE IF fail = "write"
             THEN SaveErr("Failed to write file", TRUE, WriteFile(fs, filepath, None))
             ELSE SaveOk(filepath, TRUE, WriteFile(fs, filepath, Some(to_json(saved))))

\* save_route_to_file from `let routes_dir = ...` on
save_route_steps(r, dir, fs, interval_ms, secs, fail) ==
    IF ~dir /\ fail = "create_dir"
    THEN SaveErr("Failed to create routes directory", dir, fs)
    ELSE LET timestamp == TimestampAt[secs]
             filepath == FilenameAt[secs]
             saved == SavedRoute(r, interval_ms, timestamp)
         IN  IF fail = "serialize"
             THEN SaveErr("Failed to serialize route", TRUE, fs)
             ELSE IF fail = "create"
             THEN SaveErr("Failed to create file", TRUE, fs)
             ELSE IF fail = "write"
             THEN SaveErr("Failed to write file", TRUE, WriteFile(fs, filepath, None))
             ELSE SaveOk(filepath, TRUE, WriteFile(fs, filepath, Some(to_json(saved))))

save_route_to_file_unchecked(r, dir, fs, interval_ms, secs, fail) ==
    save_route_steps(r, dir, fs, interval_ms, secs, fail)

\* save_route_to_file(route, base_dir, routes_directory, interval_ms)
save_route_to_file(r, dir, fs, interval_ms, secs, fail) ==
    IF r = << >>
    THEN SaveErr("No route data to save", dir, fs)
    ELSE save_route_steps(r, dir, fs, interval_ms, secs, fail)

\* RouteTracker::save_route, with the system clock at one of Seconds. It runs
\* on the caller's thread, on a shared borrow of the engine, and returns when
\* the I/O is done, d later; an empty route does no I/O and a save that cannot
\* create the directory does not read the clock.
save_route_at(Seconds) ==
    /\ \E secs \in Seconds, fail \in SaveFailures :
          LET out == save_route_to_file(route, dir_exists, files,
                                        record_interval_ms, secs, fail)
          IN  /\ Cardinality(DOMAIN out.files) <= MaxFiles
              /\ ret' = out.ret
              /\ dir_exists' = out.dir_exists
              /\ files' = out.files
              /\ inp' = IF route = << >> \/ ~out.dir_exists
                        THEN NoInp
                        ELSE [ NoInp EXCEPT !.secs = Some(secs) ]
    /\ \E d \in (IF route = << >> THEN { 0 } ELSE SaveDurations) :
          /\ now + d <= MaxTime
          /\ now' = now + d
    /\ op' = "save_route"
    /\ pre' = Pre
    /\ UNCHANGED construction
    /\ UNCHANGED tracker

save_route == save_route_at(WallClockReads)

(***************************************************************************)
(* Status message (tracker.rs).                                            *)
(***************************************************************************)
\* Duration::from_secs(3)
StatusWindow == from_millis(3 * 1000)

\* RouteTracker::set_status(message), for a message of Texts
set_status_of(Texts) ==
    /\ \E message \in Texts : status_message' = Some(<< message, now >>)
    /\ op' = "set_status"
    /\ pre' = Pre
    /\ UNCHANGED construction
    /\ inp' = NoInp
    /\ ret' = NoRet
    /\ UNCHANGED << route, is_recording, start_time, last_record_time,
                    record_interval, record_interval_ms, transformer, now,
                    filesystem >>

set_status == set_status_of(StatusTexts)

set_status_any == set_status_of(StatusTextSamples)

get_status_window_inclusive ==
    /\ ret' = [ NoRet EXCEPT !.status =
                  IF IsSome(status_message)
                     /\ now - Unwrap(status_message)[2] <= StatusWindow
                  THEN Some(Unwrap(status_message)[1])
                  ELSE None ]
    /\ op' = "get_status"
    /\ pre' = Pre
    /\ UNCHANGED construction
    /\ inp' = NoInp
    /\ UNCHANGED << tracker, now, filesystem >>

get_status ==
    /\ ret' = [ NoRet EXCEPT !.status =
                  IF IsSome(status_message)
                     /\ now - Unwrap(status_message)[2] < StatusWindow
                  THEN Some(Unwrap(status_message)[1])
                  ELSE None ]
    /\ op' = "get_status"
    /\ pre' = Pre
    /\ UNCHANGED construction
    /\ inp' = NoInp
    /\ UNCHANGED << tracker, now, filesystem >>

\* Every operation of RouteTracker, and time passing between the calls.
Next ==
    \/ advance
    \/ start_recording
    \/ stop_recording
    \/ record_position
    \/ save_route
    \/ set_status
    \/ get_status

\* The configurations with a positive interval; SpecRecording below covers
\* record_interval_ms = 0 as well.
InitGated == Init /\ record_interval_ms > 0

Spec == InitGated /\ [][Next]_vars

\* The recording state machine alone: save_route takes &self and the status
\* calls touch status_message only.
NextRecording ==
    \/ advance
    \/ start_recording
    \/ stop_recording
    \/ record_position

SpecRecording == Init /\ [][NextRecording]_vars

\* The host leaves the engine alone for all of the status window, or for all
\* of it but one clock unit.
StatusWaits == { StatusWindow - 1, StatusWindow }

\* Room for two such waits after the short steps.
StatusHorizon == 2 * StatusWindow + MaxTime

wait ==
    /\ \E d \in StatusWaits :
          /\ now + d <= StatusHorizon
          /\ now' = now + d
    /\ op' = "wait"
    /\ pre' = Pre
    /\ UNCHANGED construction
    /\ inp' = NoInp
    /\ ret' = NoRet
    /\ UNCHANGED << tracker, filesystem >>

\* The status message over seconds of monotonic time.
NextStatus ==
    \/ advance
    \/ wait
    \/ set_status_any
    \/ get_status

SpecStatus == Init /\ [][NextStatus]_vars

\* An engine without a tile table that was started when built, appended one
\* point, read while riding, 1 ms later and was stopped: a state Spec reaches.
InitSaves ==
    /\ record_interval_ms = 1
    /\ record_interval = from_millis(1)
    /\ transformer = EmptyTransformer
    /\ route = << Unwrap(sample_point(transformer, Some(<< Fin(1), Fin(2), Fin(3) >>),
                                      Some(TileUnanchored), Some(5), 1)) >>
    /\ is_recording = FALSE
    /\ start_time = Some(0)
    /\ last_record_time = from_millis(1)
    /\ now = from_millis(1)
    /\ status_message = None
    /\ dir_exists \in BOOLEAN
    /\ files = << >>
    /\ Constructed
    /\ op = "stop_recording"
    /\ pre = [ len |-> 1, recording |-> TRUE ]
    /\ inp = NoInp
    /\ ret = NoRet

save_route_any == save_route_at(SecondSamples)

\* Saves of one trajectory at any readings of the system clock.
NextSaves == save_route_any

SpecSaves == InitSaves /\ [][NextSaves]_vars

(***************************************************************************)
(* Construction (RouteTracker::new), statement by statement.               *)
(***************************************************************************)
\* The model counts the reads of the menu timer, and the time slept between
\* them, up to MaxPolls reads: polls = MaxPolls stands for MaxPolls or more.
MaxPolls == 3

\* RouteTracker::new has just been called: no engine, no local is bound.
InitNew ==
    /\ route = Absent
    /\ is_recording = FALSE
    /\ start_time = Absent
    /\ last_record_time = AbsentNumber
    /\ record_interval = AbsentNumber
    /\ record_interval_ms = AbsentNumber
    /\ status_message = Absent
    /\ transformer = Absent
    /\ now = 0
    /\ dir_exists \in BOOLEAN
    /\ files = << >>
    /\ pc = "load_config"
    /\ config = None
    /\ version \in Versions
    /\ pointers = None
    /\ custom_pointers = None
    /\ menu_timer = None
    /\ polls = 0
    /\ op = "new"
    /\ pre = [ len |-> 0, recording |-> FALSE ]
    /\ inp = NoInp
    /\ ret = NoRet

load_config_defaults_on_error ==
    /\ pc = "load_config"
    /\ \E result \in { ConfigErr } \cup { ConfigOk(ms) : ms \in IntervalSamples } :
          config' = Some(result)
    /\ pc' = "load_transformer"
    /\ ret' = NoRet
    /\ op' = "new"
    /\ pre' = pre
    /\ inp' = NoInp
    /\ UNCHANGED << tracker, now, filesystem, pointers, custom_pointers,
                    menu_timer, polls, version >>

\* let config = match Config::load(hmodule) { Ok(cfg) => cfg, Err(e) => { ..; return None; } }
load_config ==
    /\ pc = "load_config"
    /\ \E result \in { ConfigErr } \cup { ConfigOk(ms) : ms \in IntervalSamples } :
          /\ config' = Some(result)
          /\ IF result.ok
             THEN /\ pc' = "load_transformer"
                  /\ ret' = NoRet
             ELSE /\ pc' = "none"
                  /\ ret' = [ NoRet EXCEPT !.ok = FALSE ]
    /\ op' = "new"
    /\ pre' = pre
    /\ inp' = NoInp
    /\ UNCHANGED << tracker, now, filesystem, pointers, custom_pointers,
                    menu_timer, polls, version >>

\* let transformer = match WorldPositionTransformer::from_csv(&csv_path) { .. }:
\* the table of the file, or an empty one
load_transformer ==
    /\ pc = "load_transformer"
    /\ transformer' \in TransformerSamples
    /\ pc' = "build_pointers"
    /\ op' = "new"
    /\ pre' = pre
    /\ inp' = NoInp
    /\ ret' = NoRet
    /\ UNCHANGED << route, is_recording, start_time, last_record_time,
                    record_interval, record_interval_ms, status_message, now,
                    filesystem, config, pointers, custom_pointers, menu_timer,
                    polls, version >>

\* let pointers = Pointers::new();
\* let custom_pointers = CustomPointers::new(&pointers.base_addresses);
build_pointers ==
    /\ pc = "build_pointers"
    /\ \E base_addresses \in BaseAddressSamples :
          /\ pointers' = Some(base_addresses)
          /\ custom_pointers' = Some(CustomPointers_new(base_addresses, version))
    /\ pc' = "wait_loaded"
    /\ op' = "new"
    /\ pre' = pre
    /\ inp' = NoInp
    /\ ret' = NoRet
    /\ UNCHANGED << tracker, now, filesystem, config, menu_timer, polls, version >>

\* One turn of `loop { .. }`: the read, then the break or the sleep.
poll_menu_timer ==
    /\ pc = "wait_loaded"
    /\ \E read \in MenuTimerReads :
          /\ menu_timer' = read
          /\ IF game_loaded(read)
             THEN /\ pc' = "construct"
                  /\ now' = now
             ELSE /\ pc' = "wait_loaded"
                  /\ now' = IF polls < MaxPolls THEN now + poll_interval ELSE now
    /\ polls' = IF polls < MaxPolls THEN polls + 1 ELSE polls
    /\ op' = "new"
    /\ pre' = pre
    /\ inp' = NoInp
    /\ ret' = NoRet
    /\ UNCHANGED << tracker, filesystem, config, pointers, custom_pointers, version >>

\* let record_interval = ..; Some(Self { route: Vec::new(), is_recording: false, .. })
construct ==
    /\ pc = "construct"
    /\ route' = << >>
    /\ is_recording' = FALSE
    /\ start_time' = None
    /\ last_record_time' = now
    /\ record_interval_ms' = Unwrap(config).record_interval_ms
    /\ record_interval' = from_millis(Unwrap(config).record_interval_ms)
    /\ status_message' = None
    /\ pc' = "done"
    /\ op' = "new"
    /\ pre' = pre
    /\ inp' = NoInp
    /\ ret' = NoRet
    /\ UNCHANGED << transformer, now, filesystem, config, pointers,
                    custom_pointers, menu_timer, polls, version >>

NextNew ==
    \/ load_config
    \/ load_transformer
    \/ build_pointers
    \/ poll_menu_timer
    \/ construct

SpecNew == InitNew /\ [][NextNew]_vars

\* The thread that called RouteTracker::new keeps running: it takes its next
\* step whenever it has one.
SpecNewFair == SpecNew /\ WF_vars(NextNew)

(***************************************************************************)
(* The claims.                                                             *)
(***************************************************************************)
Last(seq) == seq[Len(seq)]

IsPrefix(a, b) == Len(a) <= Len(b) /\ SubSeq(b, 1, Len(a)) = a

\* A call of record_position in Recording finds the interval elapsed.
Due == is_recording /\ now - last_record_time >= record_interval

Available(mem) == mem.pos # None /\ mem.map_id # None

\* C1: any two consecutively appended points of the trajectory have
\* timestamp_ms values at least record_interval_ms apart; the first point of a
\* session has no predecessor and is bound by nothing.
C1_IntervalGating ==
    \A i \in 1 .. Len(route) - 1 :
        route[i + 1].timestamp_ms - route[i].timestamp_ms >= record_interval_ms

\* Two points exactly one interval apart, the first appended at elapsed-ms 0.
C1_Witness ==
    /\ record_interval_ms = 1
    /\ Len(route) = 2
    /\ route[1].timestamp_ms = 0
    /\ route[2].timestamp_ms = 1

\* C2: right after start_recording, called in Idle or in Recording and whatever
\* the trajectory held, the trajectory is empty and the state is Recording.
C2_StartClears ==
    op = "start_recording" => route = << >> /\ is_recording

\* A restart: start_recording called in Recording with points recorded.
C2_Witness ==
    op = "start_recording" /\ pre.recording /\ pre.len > 0 /\ route = << >>

\* C3: while the state is not Recording, no call but start_recording changes the
\* trajectory, and record_position changes nothing at all and reads nothing,
\* however much time has passed.
C3_TickIdleNoop ==
    [][ ~is_recording /\ op' # "start_recording"
          => /\ route' = route
             /\ op' = "record_position"
                  => /\ UNCHANGED << tracker, now, filesystem >>
                     /\ ~inp'.sampled ]_vars

\* record_position after stop_recording, with points recorded and the interval
\* elapsed since the last sample.
C3_Witness ==
    /\ op = "record_position"
    /\ ~is_recording
    /\ route # << >>
    /\ record_interval > 0
    /\ now - last_record_time >= record_interval

\* C4: start_recording is the only operation that discards recorded data: every
\* other call leaves each point already appended in place and unaltered, and
\* all of them but record_position leave the trajectory exactly as it was.
C4_OnlyStartDiscards ==
    [][ /\ op' # "start_recording" => IsPrefix(route, route')
        /\ op' \in { "stop_recording", "save_route", "set_status", "get_status",
                     "advance" }
             => route' = route ]_vars

\* stop_recording called in Recording, the points still there.
C4_Witness ==
    op = "stop_recording" /\ pre.recording /\ ~is_recording /\ Len(route) = MaxPoints

\* C5: the timestamp_ms values of the trajectory never decrease in append order.
C5_TimestampsNonDecreasing ==
    \A i \in 1 .. Len(route) - 1 :
        route[i].timestamp_ms <= route[i + 1].timestamp_ms

\* Two points of a session started after time has passed, the later with the
\* larger timestamp.
C5_Witness ==
    /\ Len(route) = 2
    /\ route[1].timestamp_ms < route[2].timestamp_ms
    /\ IsSome(start_time) /\ Unwrap(start_time) > 0

\* C6: a due record_position in Recording that finds the position or the tile id
\* unavailable changes nothing (no point, no last_record_time, still Recording,
\* so it is still due), and one that finds both appends exactly one point.
C6_SkipWhenUnavailable ==
    [][ op' = "record_position" /\ Due
          => IF Available(inp'.mem)
             THEN Len(route') = Len(route) + 1 /\ IsPrefix(route, route')
             ELSE UNCHANGED << tracker, now >> ]_vars

\* A due call in Recording has just found the position unavailable.
C6_Witness ==
    /\ op = "record_position"
    /\ inp.sampled
    /\ inp.mem.pos = None
    /\ inp.mem.map_id # None
    /\ Due
    /\ Len(route) = 1

ConversionFails(p) ==
    local_to_world_first(transformer, p.map_id, p.x, p.y, p.z) = None

GlobalIsLocal(p) ==
    << p.global_x, p.global_y, p.global_z >> = << p.x, p.y, p.z >>

C8_MountFlag ==
    [][ op' = "record_position" /\ Due /\ Available(inp'.mem)
          => /\ Len(route') = Len(route) + 1
             /\ Last(route').on_torrent
                  = ( /\ inp'.mem.horse_state # None
                      /\ Unwrap(inp'.mem.horse_state) # 0 ) ]_vars

\* A point appended while the mount state was unavailable.
C8_Witness ==
    /\ op = "record_position"
    /\ inp.sampled /\ Available(inp.mem)
    /\ inp.mem.horse_state = None
    /\ Len(route) = pre.len + 1
    /\ ~Last(route).on_torrent

\* C9: save_route on an empty trajectory returns the empty-route error and does
\* no I/O: the directory and the files are as before, and so is the engine.
C9_EmptySaveNoIO ==
    [][ op' = "save_route" /\ route = << >>
          => /\ ~ret'.ok
             /\ ret'.err = "No route data to save"
             /\ UNCHANGED << tracker, filesystem >> ]_vars

\* save_route has just failed on an empty trajectory, in Recording, where the
\* routes directory does not exist.
C9_Witness ==
    /\ op = "save_route"
    /\ route = << >>
    /\ is_recording
    /\ ~ret.ok
    /\ ~dir_exists
    /\ files = << >>

\* Reading a written number back as an f32: null is not a number.
read_f32(j, f) == ~j.null /\ f.fin /\ j.num = f.v

PointReadsBack(j, p) ==
    /\ read_f32(j.x, p.x) /\ read_f32(j.y, p.y) /\ read_f32(j.z, p.z)
    /\ read_f32(j.global_x, p.global_x)
    /\ read_f32(j.global_y, p.global_y)
    /\ read_f32(j.global_z, p.global_z)
    /\ j.map_id = p.map_id
    /\ j.map_id_str = p.map_id_str
    /\ j.timestamp_ms = p.timestamp_ms
    /\ j.on_torrent = p.on_torrent

\* The document a successful save_route has just written.
WrittenDocument == Unwrap(files[Unwrap(ret.path)])

DocumentMatches(doc) ==
    /\ doc.point_count = Len(route)
    /\ Len(doc.points) = Len(route)
    /\ \A i \in 1 .. Len(route) : PointReadsBack(doc.points[i], route[i])
    /\ doc.interval_ms = record_interval_ms
    /\ doc.duration_secs.num * 1000 = Last(route).timestamp_ms * doc.duration_secs.den

\* C10: a successful save_route has written a document whose point_count is the
\* trajectory length, whose points are the trajectory's points with identical
\* values in the same order, whose interval_ms is the configured interval and
\* whose duration_secs is the last point's timestamp_ms / 1000.
C10_SavedDocument ==
    op = "save_route" /\ ret.ok
      => /\ Unwrap(ret.path) \in DOMAIN files
         /\ IsSome(files[Unwrap(ret.path)])
         /\ DocumentMatches(WrittenDocument)

AllFinite(p) ==
    /\ p.x.fin /\ p.y.fin /\ p.z.fin
    /\ p.global_x.fin /\ p.global_y.fin /\ p.global_z.fin

\* The same for the trajectories whose coordinates are all finite numbers.
SavedDocumentOfFiniteRoute ==
    op = "save_route" /\ ret.ok /\ (\A i \in 1 .. Len(route) : AllFinite(route[i]))
      => /\ Unwrap(ret.path) \in DOMAIN files
         /\ IsSome(files[Unwrap(ret.path)])
         /\ DocumentMatches(WrittenDocument)

\* Two points at elapsed-ms 0 and 1 saved: duration_secs is 1 / 1000.
SavedTwoPoints ==
    /\ op = "save_route" /\ ret.ok
    /\ Len(route) = 2
    /\ \A i \in 1 .. 2 : AllFinite(route[i])
    /\ route[2].timestamp_ms = 1
    /\ WrittenDocument.duration_secs = [num |-> 1, den |-> 1000]


\* What the routes directory holds apart from the file at path.
OtherFiles(fs, path) == [ f \in (DOMAIN fs) \ { path } |-> fs[f] ]

\* C11: a save_route of a non-empty trajectory that fails returns the error of
\* the stage that failed and has run no later stage: failing to create the
\* directory leaves no directory and no file, failing to serialize or to create
\* the file leaves the files as they were, failing to write leaves the created
\* file without a document and every other file as it was. The engine, its
\* trajectory and recording state included, is as before the call, and a
\* save_route of the same trajectory can succeed afterwards.
C11_FailedSaveAborts ==
    /\ [][ op' = "save_route" /\ route # << >> /\ ~ret'.ok
             => /\ UNCHANGED tracker
                /\ ret'.path = None
                /\ \/ /\ ret'.err = "Failed to create routes directory"
                      /\ ~dir_exists /\ ~dir_exists'
                      /\ files' = files
                   \/ /\ ret'.err = "Failed to serialize route"
                      /\ dir_exists'
                      /\ files' = files
                   \/ /\ ret'.err = "Failed to create file"
                      /\ dir_exists'
                      /\ files' = files
                   \/ /\ ret'.err = "Failed to write file"
                      /\ dir_exists'
                      /\ \E path \in DOMAIN files' :
                            /\ files'[path] = None
                            /\ OtherFiles(files', path) = OtherFiles(files, path) ]_vars
    /\ [](op = "save_route" /\ route # << >> /\ ~ret.ok
            => ENABLED (save_route /\ ret'.ok /\ route' = route))

\* In Recording with points appended, save_route has just failed to serialize:
\* the directory is there and no file is.
C11_Witness ==
    /\ op = "save_route"
    /\ ~ret.ok
    /\ ret.err = "Failed to serialize route"
    /\ is_recording
    /\ Len(route) = MaxPoints
    /\ dir_exists
    /\ files = << >>


\* 3 seconds of monotonic time, in clock units.
ThreeSeconds == 3 * 1000 * UnitsPerMs

\* C12: set_status records its text and the instant of the call and nothing
\* else sets or clears that record; get_status returns none while no text was
\* ever set, the text of the most recent set_status while less than 3 seconds
\* have passed since that call, and none once 3 seconds or more have passed.
C12_StatusWindow ==
    /\ [][ IF op' = "set_status"
           THEN /\ IsSome(status_message')
                /\ Unwrap(status_message')[1] \in StatusTextSamples
                /\ Unwrap(status_message')[2] = now
           ELSE status_message' = status_message ]_vars
    /\ [](op = "get_status"
            => ret.status =
                 IF status_message = None THEN None
                 ELSE IF now - Unwrap(status_message)[2] < ThreeSeconds
                 THEN Some(Unwrap(status_message)[1])
                 ELSE None)

\* get_status called exactly 3 seconds after a set_status made after time had
\* passed: it returns none.
C12_Witness ==
    /\ op = "get_status"
    /\ IsSome(status_message)
    /\ Unwrap(status_message)[2] > 0
    /\ now - Unwrap(status_message)[2] = ThreeSeconds
    /\ ret.status = None

\* get_status called one clock unit before the 3 seconds are over returns the
\* text.
StatusStillShown ==
    /\ op = "get_status"
    /\ IsSome(status_message)
    /\ now - Unwrap(status_message)[2] = ThreeSeconds - 1
    /\ ret.status = Some("Recording started")


\* No engine exists: none of its fields does.
NoEngine ==
    /\ route = Absent
    /\ is_recording = FALSE
    /\ start_time = Absent
    /\ last_record_time = AbsentNumber
    /\ record_interval = AbsentNumber
    /\ record_interval_ms = AbsentNumber
    /\ status_message = Absent

\* A read of the readiness signal that found it available and not zero.
ReadyRead(read) == IsSome(read) /\ Unwrap(read) # Fin(0)

\* C13: until RouteTracker::new has completed there is no engine, and it
\* completes only after a poll that read the menu timer as available and
\* non-zero; a poll that reads it unavailable or zero sleeps 100 ms and polls
\* again, the wait is left for nothing but the construction of the engine, and
\* it never gives up: however many polls were made, the next one is made.
C13_ReadinessBarrier ==
    /\ [](pc # "done" => NoEngine)
    /\ [](pc \in { "construct", "done" } => polls > 0 /\ ReadyRead(menu_timer))
    /\ [][ pc = "wait_loaded"
             => /\ pc' \in { "wait_loaded", "construct" }
                /\ polls < MaxPolls => polls' = polls + 1
                /\ ~ReadyRead(menu_timer')
                     => /\ pc' = "wait_loaded"
                        /\ polls < MaxPolls => now' = now + 100 * UnitsPerMs ]_vars
    /\ [](pc = "wait_loaded"
            => ENABLED (poll_menu_timer /\ pc' = "wait_loaded")
               /\ ENABLED (poll_menu_timer /\ pc' = "construct"))

\* Construction completed at the last poll the model follows, after polls that
\* read nothing or zero, each followed by a sleep.
C13_Witness ==
    /\ pc = "done"
    /\ polls = MaxPolls
    /\ menu_timer = Some(Fin(1))
    /\ is_recording = FALSE
    /\ last_record_time = (MaxPolls - 1) * 100 * UnitsPerMs

\* Config::load succeeded and the last poll read r, which satisfies Accepts.
LoadedAndRead(Accepts(_)) ==
    IF IsSome(config) THEN Unwrap(config).ok /\ Accepts(menu_timer) ELSE FALSE

\* C14: if Config::load succeeded and from some moment on every poll reads the
\* menu timer as available and non-zero, whatever the non-zero value,
\* RouteTracker::new eventually returns an engine that is not recording and
\* whose trajectory is empty.
C14_EventuallyConstructed ==
    /\ <>[]LoadedAndRead(ReadyRead) => <>(pc = "done")
    /\ [](pc = "done" => route = << >> /\ is_recording = FALSE)

\* The same for the reads the code accepts, the values above zero.
ConstructedOncePositive ==
    /\ <>[]LoadedAndRead(game_loaded) => <>(pc = "done")
    /\ [](pc = "done" => route = << >> /\ is_recording = FALSE)

\* C15: when Config::load fails, RouteTracker::new returns None at that very
\* step: there is no engine, no tile table was loaded, no pointer chain built,
\* the menu timer never read and no time slept, and nothing follows.
C15_NoConfigNoEngine ==
    /\ [][ pc = "load_config" /\ ~Unwrap(config').ok
             => /\ pc' = "none"
                /\ ~ret'.ok
                /\ UNCHANGED << tracker, now, filesystem, pointers,
                                custom_pointers, menu_timer, polls >> ]_vars
    /\ [](IsSome(config) /\ ~Unwrap(config).ok
            => /\ pc = "none"
               /\ NoEngine
               /\ transformer = Absent
               /\ pointers = None
               /\ custom_pointers = None
               /\ menu_timer = None
               /\ polls = 0
               /\ now = 0)
    /\ [][ pc # "none" ]_vars

\* Config::load has failed and RouteTracker::new has returned None.
C15_Witness ==
    /\ pc = "none"
    /\ config = Some(ConfigErr)
    /\ ~ret.ok
    /\ NoEngine
    /\ transformer = Absent

\* 0x18468 and 0x1E508, digit by digit
Hex18468 == 1 * 65536 + 8 * 4096 + 4 * 256 + 6 * 16 + 8

Hex1E508 == 1 * 65536 + 14 * 4096 + 5 * 256 + 0 * 16 + 8

\* The chains that lead into the active player's structure.
PlayerChains ==
    { "ride_param_id", "is_riding_enabled", "riding", "is_it_a_horse",
      "horse_state", "horse_hp", "is_inside_no_ride_area" }

\* C16: whatever the version, CustomPointers::new builds its chains; every chain
\* into the active player's structure has as its offset 0x18468 when the version
\* is one of 1.02.0 .. 1.06.0 and 0x1E508 for every other version, and no chain
\* of the engine holds the offset of the other layout.
C16_OffsetSelection ==
    /\ pc = "build_pointers" => ENABLED build_pointers
    /\ pc \in { "wait_loaded", "construct", "done" } => IsSome(custom_pointers)
    /\ IsSome(custom_pointers)
         => LET chains == Unwrap(custom_pointers)
                selected == IF version \in OlderLayoutVersions
                            THEN Hex18468 ELSE Hex1E508
            IN  /\ PlayerChains \subseteq DOMAIN chains
                /\ \A name \in PlayerChains : chains[name][2] = selected
                /\ \A name \in DOMAIN chains :
                     \A i \in 1 .. Len(chains[name]) :
                        chains[name][i] \in { Hex18468, Hex1E508 }
                          => chains[name][i] = selected

\* The chains of an engine built in version 1.06.0, the last of the older
\* layout.
C16_Witness ==
    /\ version = "V1_06_0"
    /\ pc = "done"
    /\ IsSome(custom_pointers)
    /\ Unwrap(custom_pointers).horse_state[2] = Hex18468

\* The chains built in a 2.x version.
LaterVersionChains ==
    /\ version = "V2_02_0"
    /\ IsSome(custom_pointers)
    /\ Unwrap(custom_pointers).riding[2] = Hex1E508
    /\ Unwrap(custom_pointers).death_count = << Unwrap(pointers).game_data_man, 148 >>


\* The earliest instant at which a record_position called from now on samples.
NextSampleDue ==
    IF now - last_record_time >= record_interval
    THEN now
    ELSE last_record_time + record_interval

\* C17: in Recording a save_route never keeps a sample waiting: it has returned,
\* so that record_position can be called, by the instant at which the next
\* sample is due, however long its I/O takes.
C17_SaveDoesNotDelaySampling ==
    [][ op' = "save_route" /\ is_recording => now' <= NextSampleDue ]_vars

\* A save_route in Recording that returned after the next sample was due: the
\* sample is overdue by the time record_position can be called.
SlowSaveOverran ==
    /\ op = "save_route"
    /\ is_recording
    /\ route # << >>
    /\ now - last_record_time > record_interval


\* C18: start_time is the instant of the most recent start_recording, and is set
\* whenever the engine is recording; the timestamp_ms of a point that
\* record_position appends is the whole milliseconds from that instant to an
\* instant of the call that appended it.
C18_ElapsedSinceStart ==
    /\ [](is_recording => IsSome(start_time))
    /\ [][ IF op' = "start_recording"
           THEN start_time' = Some(now)
           ELSE start_time' = start_time ]_vars
    /\ [][ op' = "record_position" /\ Len(route') = Len(route) + 1
             => \E t \in now .. now' :
                  Last(route').timestamp_ms
                    = (t - Unwrap(start_time)) \div UnitsPerMs ]_vars

\* A point appended 1 ms after a start_recording that was itself called 1 ms or
\* more after the engine was built.
C18_Witness ==
    /\ op = "record_position"
    /\ Len(route) = 1
    /\ pre.len = 0
    /\ IsSome(start_time)
    /\ Unwrap(start_time) >= UnitsPerMs
    /\ last_record_time > Unwrap(start_time)
    /\ Last(route).timestamp_ms = 1
    /\ now - Unwrap(start_time) < 2 * UnitsPerMs


\* C19: last_record_time changes only in a record_position that appends a
\* point, which sets it to the instant it returns at: start_recording,
\* stop_recording, save_route, a record_position that is not due and one that
\* finds no position or tile id leave it as it is. A point is appended only by
\* a call made record_interval or more after last_record_time, be it the
\* instant of a sample of this session, of an earlier one, or of construction.
C19_LastSampleInstant ==
    /\ [][ last_record_time' # last_record_time
             => /\ op' = "record_position"
                /\ Len(route') = Len(route) + 1
                /\ last_record_time' = now' ]_vars
    /\ [][ ( \/ op' \in { "start_recording", "stop_recording", "save_route" }
             \/ op' = "record_position" /\ Len(route') = Len(route) )
             => last_record_time' = last_record_time ]_vars
    /\ [][ op' = "record_position" /\ Len(route') = Len(route) + 1
             => now - last_record_time >= record_interval_ms * UnitsPerMs ]_vars

\* The first record_position of a session started less than an interval after
\* the last sample of the session before: it is not due and samples nothing.
C19_Witness ==
    /\ op = "record_position"
    /\ is_recording
    /\ route = << >>
    /\ ~inp.sampled
    /\ last_record_time > 0
    /\ Unwrap(start_time) >= last_record_time
    /\ now - last_record_time < record_interval

\* A due record_position that found no position left last_record_time alone, so
\* the call is still due.
SkippedTickStillDue ==
    /\ op = "record_position"
    /\ inp.sampled
    /\ ~Available(inp.mem)
    /\ Due
    /\ last_record_time > 0


\* C20: of two save_route calls that both wrote their file, one right after the
\* other, the second targets the path of the first exactly when the system
\* clock read the same whole second in both; the path is "route_", the
\* timestamp with '-' for ':' and '_' for ' ', and ".json".
C20_TimestampPerSecond ==
    [][ (op = "save_route" /\ ret.ok /\ op' = "save_route" /\ ret'.ok)
          => /\ IsSome(inp.secs) /\ IsSome(inp'.secs)
             /\ (ret'.path = ret.path) <=> (inp'.secs = inp.secs) ]_vars

\* The save of the first second of day 365 after one in day 364: the year has
\* turned to 1971 and the month from 13 to 1, and the directory holds two files.
C20_Witness ==
    /\ op = "save_route"
    /\ ret.ok
    /\ inp.secs = Some(365 * 86400)
    /\ Unwrap(ret.path) = << "r", "o", "u", "t", "e", "_",
                             "1", "9", "7", "1", "-", "0", "1", "-", "0", "1", "_",
                             "0", "0", "-", "0", "0", "-", "0", "0",
                             ".", "j", "s", "o", "n" >>
    /\ << "r", "o", "u", "t", "e", "_",
          "1", "9", "7", "0", "-", "1", "3", "-", "0", "5", "_",
          "0", "0", "-", "0", "0", "-", "0", "0",
          ".", "j", "s", "o", "n" >> \in DOMAIN files
    /\ Cardinality(DOMAIN files) = 2

=============================================================================
